---- MODULE Spec2Model ----
(***************************************************************************)
(* APQP planner: the scheduling engine (backend/core/scheduler.py), the    *)
(* progress ledger (backend/core/progress_manager.py) and the request      *)
(* handlers of backend/main.py that drive them.                            *)
(*                                                                         *)
(* Dates are calendar days counted from Monday 2024-12-02 (day 0); every   *)
(* datetime the handlers build comes from strptime("%Y-%m-%d"), so it is   *)
(* a midnight and a day number carries all of it.  weekday() is d % 7,     *)
(* 0 = Monday ... 5 = Saturday, 6 = Sunday.                                *)
(***************************************************************************)
EXTENDS Integers, Sequences, FiniteSets, TLC

VARIABLES tasks, lastOp, summary, records, opCount

vars == <<tasks, lastOp, summary, records, opCount>>

(***************************************************************************)
(* Bounds of the model.                                                    *)
(***************************************************************************)
\* durations of the scheduled tasks range over 1..MaxDur
MaxDur == 2
\* number of requests in one behaviour of the request-sequence specification
MaxOps == 3
\* number of add_record calls in one behaviour of the ledger specification
MaxCalls == 3
\* workday counts passed to add_workdays and subtract_workdays go up to MaxDays
MaxDays == 5

(***************************************************************************)
(* Values of the program.                                                  *)
(***************************************************************************)
\* Optional[datetime] = None
NoDate == -1

\* Task.predecessor = "" (no predecessor)
NoPred == ""

\* Scheduler.DEFAULT_HOLIDAYS as day numbers: 2025-01-01, 01-28..02-04,
\* 04-04..04-06, 05-01..05-05, 05-31..06-02, 10-01..10-07.
DEFAULT_HOLIDAYS ==
    {30} \cup (57..64) \cup (123..125) \cup (150..154) \cup (180..182) \cup (303..309)

\* Scheduler.__init__: "holidays or DEFAULT_HOLIDAYS"; None and the empty
\* set are both falsy, so both select the built-in set.
Scheduler(exclude_weekends, exclude_holidays, holidays) ==
    [exclude_weekends |-> exclude_weekends,
     exclude_holidays |-> exclude_holidays,
     holidays         |-> IF holidays = {} THEN DEFAULT_HOLIDAYS ELSE holidays]

\* datetime.weekday()
weekday(d) == d % 7

\* Scheduler.is_workday
is_workday(s, d) ==
    IF s.exclude_weekends /\ weekday(d) >= 5 THEN FALSE
    ELSE IF s.exclude_holidays /\ d \in s.holidays THEN FALSE
    ELSE TRUE

\* "while not self.is_workday(x): x += timedelta(days=1)"
RECURSIVE ShiftForward(_, _)
ShiftForward(s, d) ==
    IF is_workday(s, d) THEN d ELSE ShiftForward(s, d + 1)

\* "while not self.is_workday(x): x -= timedelta(days=1)"
RECURSIVE ShiftBackward(_, _)
ShiftBackward(s, d) ==
    IF is_workday(s, d) THEN d ELSE ShiftBackward(s, d - 1)

\* the while loop of add_workdays
RECURSIVE AddLoop(_, _, _, _)
AddLoop(s, current, added, days) ==
    IF added < days
    THEN AddLoop(s, current + 1,
                 IF is_workday(s, current + 1) THEN added + 1 ELSE added, days)
    ELSE current

\* add_workdays that never counts the start date itself
add_workdays_StartNotCounted(s, start_date, days) ==
    IF days <= 0 THEN start_date
    ELSE IF ~s.exclude_weekends /\ ~s.exclude_holidays
         THEN start_date + (days - 1)
    ELSE AddLoop(s, start_date, 0, days)

\* Scheduler.add_workdays
add_workdays(s, start_date, days) ==
    IF days <= 0 THEN start_date
    ELSE IF ~s.exclude_weekends /\ ~s.exclude_holidays
         THEN start_date + (days - 1)
    ELSE AddLoop(s, start_date, IF is_workday(s, start_date) THEN 1 ELSE 0, days)

\* the while loop of subtract_workdays
RECURSIVE SubtractLoop(_, _, _, _)
SubtractLoop(s, current, subtracted, days) ==
    IF subtracted < days
    THEN SubtractLoop(s, current - 1,
                      IF is_workday(s, current - 1) THEN subtracted + 1 ELSE subtracted,
                      days)
    ELSE current

\* subtract_workdays whose fast path steps back days instead of days - 1
subtract_workdays_FastPathOff(s, end_date, days) ==
    IF days <= 0 THEN end_date
    ELSE IF ~s.exclude_weekends /\ ~s.exclude_holidays
         THEN end_date - days
    ELSE SubtractLoop(s, end_date, IF is_workday(s, end_date) THEN 1 ELSE 0, days)

\* Scheduler.subtract_workdays
subtract_workdays(s, end_date, days) ==
    IF days <= 0 THEN end_date
    ELSE IF ~s.exclude_weekends /\ ~s.exclude_holidays
         THEN end_date - (days - 1)
    ELSE SubtractLoop(s, end_date, IF is_workday(s, end_date) THEN 1 ELSE 0, days)

(***************************************************************************)
(* Scheduler.calculate_dates (forward) and calculate_dates_backward.       *)
(* A task list is a sequence of Task records; the loops mutate the tasks   *)
(* in place, so each step reads the list as the earlier steps left it.     *)
(***************************************************************************)
\* ClearOne without the manual flags: every date is recomputed
ClearOne_All(t) == [t EXCEPT !.start_date = NoDate, !.end_date = NoDate]

\* ClearOne dropping the manual flag of a date together with the date
ClearOne_Unpin(t) ==
    [t EXCEPT !.start_date = IF t.manual_start THEN t.start_date ELSE NoDate,
              !.end_date = NoDate, !.manual_end = FALSE]

\* step 1 of both passes: clear the dates that are not flagged manual
ClearOne(t) ==
    [t EXCEPT !.start_date = IF t.manual_start THEN t.start_date ELSE NoDate,
              !.end_date   = IF t.manual_end THEN t.end_date ELSE NoDate]

ClearNonManual(ts) == [i \in 1..Len(ts) |-> ClearOne(ts[i])]

\* TaskMapKeys without the "if not task.excluded" filter
TaskMapKeys_All(ts, no) == {j \in 1..Len(ts) : ts[j].task_no = no}

\* task_map = {task.task_no: task for task in tasks if not task.excluded}:
\* the indices that enter the map under key no (a later one replaces an earlier)
TaskMapKeys(ts, no) ==
    {j \in 1..Len(ts) : ts[j].task_no = no /\ ~ts[j].excluded}

InTaskMap(ts, no) == TaskMapKeys(ts, no) # {}

TaskMapIndex(ts, no) ==
    CHOOSE j \in TaskMapKeys(ts, no) : \A k \in TaskMapKeys(ts, no) : k <= j

\* _find_previous_task without "if not task.excluded": the task just before
FindPreviousTask_Any(ts, i) == i - 1

\* Scheduler._find_previous_task: index of the last non-excluded task before
\* the first task carrying current's task_no; 0 stands for None
FindPreviousTask(ts, i) ==
    LET stop   == CHOOSE k \in 1..Len(ts) :
                      /\ ts[k].task_no = ts[i].task_no
                      /\ \A m \in 1..(k - 1) : ts[m].task_no # ts[i].task_no
        before == {j \in 1..(stop - 1) : ~ts[j].excluded}
    IN  IF before = {} THEN 0
        ELSE CHOOSE j \in before : \A k \in before : k <= j

\* DayAfter without the step to the next day: a task would start on the day
\* its predecessor ends
DayAfter_SameDay(s, end_date) == ShiftForward(s, end_date)

\* "next_day = x.end_date + timedelta(days=1); while not is_workday(next_day): ..."
DayAfter(s, end_date) == ShiftForward(s, end_date + 1)

\* calculate_dates, the choice of the start date of task i
ForwardStart(s, ts, i, project_start) ==
    LET t == ts[i] IN
    IF t.manual_start /\ t.start_date # NoDate THEN t.start_date
    ELSE IF t.predecessor # NoPred /\ InTaskMap(ts, t.predecessor)
    THEN LET pred == ts[TaskMapIndex(ts, t.predecessor)] IN
         IF pred.end_date # NoDate THEN DayAfter(s, pred.end_date)
         ELSE project_start
    ELSE IF t.start_date = NoDate
    THEN LET p == FindPreviousTask(ts, i) IN
         IF p # 0 /\ ts[p].end_date # NoDate THEN DayAfter(s, ts[p].end_date)
         ELSE project_start
    ELSE t.start_date

\* ForwardAlignStart without the shift to a workday
ForwardAlignStart_None(s, t, start) == start

\* ForwardAlignStart walking back to a workday, as the backward pass does
ForwardAlignStart_Backward(s, t, start) ==
    IF ~t.manual_start THEN ShiftBackward(s, start) ELSE start

\* "if not task.manual_start: while not is_workday(task.start_date): ..."
ForwardAlignStart(s, t, start) ==
    IF ~t.manual_start THEN ShiftForward(s, start) ELSE start

\* ForwardEnd walking backward from the start instead of forward
ForwardEnd_Subtract(s, t, start) ==
    IF t.manual_end /\ t.end_date # NoDate THEN t.end_date
    ELSE subtract_workdays(s, start, t.duration)

\* "if task.manual_end and task.end_date: pass / else: add_workdays(...)"
ForwardEnd(s, t, start) ==
    IF t.manual_end /\ t.end_date # NoDate THEN t.end_date
    ELSE add_workdays(s, start, t.duration)

\* one iteration of the loop of calculate_dates
ForwardTask(s, ts, i, project_start) ==
    IF ts[i].excluded
    THEN [ts EXCEPT ![i].start_date = NoDate, ![i].end_date = NoDate]
    ELSE LET start == ForwardAlignStart(s, ts[i],
                                        ForwardStart(s, ts, i, project_start))
         IN  [ts EXCEPT ![i].start_date = start,
                        ![i].end_date   = ForwardEnd(s, ts[i], start)]

RECURSIVE ForwardLoop(_, _, _, _)
ForwardLoop(s, ts, i, project_start) ==
    IF i > Len(ts) THEN ts
    ELSE ForwardLoop(s, ForwardTask(s, ts, i, project_start), i + 1, project_start)

\* Scheduler.calculate_dates
calculate_dates(s, ts, project_start) ==
    ForwardLoop(s, ClearNonManual(ts), 1, project_start)

\* Scheduler._build_successor_map, the entry of key no: the task numbers of
\* the tasks whose predecessor is no, in list order (excluded ones included)
RECURSIVE SuccessorsFrom(_, _, _)
SuccessorsFrom(ts, no, j) ==
    IF j > Len(ts) THEN <<>>
    ELSE IF ts[j].predecessor # NoPred /\ ts[j].predecessor = no
         THEN <<ts[j].task_no>> \o SuccessorsFrom(ts, no, j + 1)
         ELSE SuccessorsFrom(ts, no, j + 1)

build_successor_map(ts, no) ==
    IF \E j \in 1..Len(ts) : ts[j].task_no = no
    THEN SuccessorsFrom(ts, no, 1) ELSE <<>>

\* MinSuccessorStart with the comparison dropped: the last successor that has
\* a start date wins, not the earliest
RECURSIVE MinSuccessorStart_Last(_, _, _, _)
MinSuccessorStart_Last(ts, succs, k, best) ==
    IF k > Len(succs) THEN best
    ELSE LET has  == \E j \in 1..Len(ts) : ts[j].task_no = succs[k] /\ ~ts[j].excluded
             succ == ts[CHOOSE j \in 1..Len(ts) :
                            ts[j].task_no = succs[k] /\ ~ts[j].excluded]
         IN  IF has /\ succ.start_date # NoDate
             THEN MinSuccessorStart_Last(ts, succs, k + 1, succ.start_date)
             ELSE MinSuccessorStart_Last(ts, succs, k + 1, best)

\* the loop over successors_list: the minimum start_date of the successors
\* found in task_map that have one, NoDate when there is none
RECURSIVE MinSuccessorStart(_, _, _, _)
MinSuccessorStart(ts, succs, k, best) ==
    IF k > Len(succs) THEN best
    ELSE LET has  == InTaskMap(ts, succs[k])
             succ == ts[TaskMapIndex(ts, succs[k])]
         IN  IF has /\ succ.start_date # NoDate
                    /\ (best = NoDate \/ succ.start_date < best)
             THEN MinSuccessorStart(ts, succs, k + 1, succ.start_date)
             ELSE MinSuccessorStart(ts, succs, k + 1, best)

\* "prev_day = min_successor_start - timedelta(days=1); while not is_workday..."
DayBefore(s, start_date) == ShiftBackward(s, start_date - 1)

\* calculate_dates_backward 4a: the choice of the end date of task i
BackwardEnd(s, ts, i, project_end) ==
    LET t == ts[i] IN
    IF t.manual_end /\ t.end_date # NoDate THEN t.end_date
    ELSE LET succs == build_successor_map(ts, t.task_no)
             m     == MinSuccessorStart(ts, succs, 1, NoDate)
         IN  IF Len(succs) > 0 /\ m # NoDate THEN DayBefore(s, m)
             ELSE project_end

\* 4b: "if not task.manual_end and task.end_date: while not is_workday..."
BackwardAlignEnd(s, t, end) ==
    IF ~t.manual_end /\ end # NoDate THEN ShiftBackward(s, end) ELSE end

\* BackwardStart keeping the start of every task flagged manual_start,
\* whether the date is set or not
BackwardStart_FlagOnly(s, t, end) ==
    IF t.manual_start THEN t.start_date
    ELSE IF end # NoDate THEN subtract_workdays(s, end, t.duration)
    ELSE t.start_date

\* 4c: "if task.manual_start and task.start_date: pass / elif task.end_date: ..."
BackwardStart(s, t, end) ==
    IF t.manual_start /\ t.start_date # NoDate THEN t.start_date
    ELSE IF end # NoDate THEN subtract_workdays(s, end, t.duration)
    ELSE t.start_date

\* one iteration of the reversed loop of calculate_dates_backward
BackwardTask(s, ts, i, project_end) ==
    IF ts[i].excluded
    THEN [ts EXCEPT ![i].start_date = NoDate, ![i].end_date = NoDate]
    ELSE LET end == BackwardAlignEnd(s, ts[i], BackwardEnd(s, ts, i, project_end))
         IN  [ts EXCEPT ![i].end_date   = end,
                        ![i].start_date = BackwardStart(s, ts[i], end)]

RECURSIVE BackwardLoop(_, _, _, _)
BackwardLoop(s, ts, i, project_end) ==
    IF i < 1 THEN ts
    ELSE BackwardLoop(s, BackwardTask(s, ts, i, project_end), i - 1, project_end)

\* Scheduler.calculate_dates_backward
calculate_dates_backward(s, ts, project_end) ==
    BackwardLoop(s, ClearNonManual(ts), Len(ts), project_end)

(***************************************************************************)
(* The Task entity (scheduler.py, class Task).  milestone, name, owner and *)
(* the RACI lists are descriptive and read by no operation modelled here.  *)
(***************************************************************************)
\* TaskStatus
NOT_STARTED == "NOT_STARTED"
IN_PROGRESS == "IN_PROGRESS"
COMPLETED   == "COMPLETED"
PAUSED      == "PAUSED"
TaskStatus  == {NOT_STARTED, IN_PROGRESS, COMPLETED, PAUSED}

\* Task(...) with the dataclass defaults, then the dates as model_to_task and
\* Task.from_dict set them
Task(task_no, duration, predecessor, start_date, manual_start, end_date, manual_end, excluded) ==
    [task_no          |-> task_no,
     duration         |-> duration,
     predecessor      |-> predecessor,
     start_date       |-> start_date,
     end_date         |-> end_date,
     manual_start     |-> manual_start,
     manual_end       |-> manual_end,
     actual_start     |-> NoDate,
     actual_end       |-> NoDate,
     excluded         |-> excluded,
     progress         |-> 0,
     status           |-> NOT_STARTED,
     progress_history |-> <<>>]

(***************************************************************************)
(* The inputs the model draws from.                                        *)
(***************************************************************************)
\* task numbers of the list, in list order (Task.task_no is unique)
TaskNos == <<"A", "B", "C">>

\* a reference that names no task of the list
Missing == "X"

Durations == 1..MaxDur

\* the "date" of a ScheduleRequest: Monday 2024-12-30, Saturday 2025-01-04,
\* Friday 2025-01-31 (a built-in holiday, as 2025-01-01 is)
RequestDates == {28, 33, 60}

\* dates a user pins: Saturday 2025-01-04 and Wednesday 2025-01-08
PinDates == {33, 37}

\* One date field of a task with its manual flag: unset, pinned by the user,
\* or flagged manual with its date cleared -- what the excluded branch of
\* either pass leaves behind (it clears the date, not the flag) once
\* toggle_exclude includes the task again.
Unset == [date |-> NoDate, manual |-> FALSE]

Stale == [date |-> NoDate, manual |-> TRUE]

Pinned(d) == [date |-> d, manual |-> TRUE]

DateStates == {Unset, Stale} \cup {Pinned(d) : d \in PinDates}

\* the plain task i of a list: predecessor p, duration d, no date, included
Plain(i, p, d) == Task(TaskNos[i], d, p, NoDate, FALSE, NoDate, FALSE, FALSE)

\* task lists of three tasks in which at most one task (index k) carries
\* date state or an exclusion
TaskLists(PredSet, DurSet, Special, DatePairs) ==
    {[i \in 1..3 |->
        IF i = k
        THEN Task(TaskNos[i], d[i], p[i], dp[1].date, dp[1].manual,
                  dp[2].date, dp[2].manual, ex)
        ELSE Plain(i, p[i], d[i])] :
     p \in PredSet, d \in DurSet, k \in Special, dp \in DatePairs, ex \in BOOLEAN}

\* predecessor columns of the single-request specification: chains, two
\* successors of one task, references to a later task, to the task itself,
\* to a missing task, and a cycle
CallPreds ==
    {<<NoPred, NoPred, NoPred>>, <<NoPred, "A", "B">>, <<NoPred, "A", "A">>,
     <<NoPred, NoPred, "A">>,    <<NoPred, NoPred, "B">>, <<"B", NoPred, NoPred>>,
     <<"C", NoPred, "B">>,       <<NoPred, "C", NoPred>>, <<"B", "A", NoPred>>,
     <<"A", NoPred, "A">>,       <<NoPred, Missing, "B">>, <<Missing, "B", "C">>}

CallDurations == {<<a, b, 1>> : a \in Durations, b \in Durations}

\* at most one of the two date fields is pinned or stale, or both are pinned
CallDatePairs ==
    {<<st, Unset>> : st \in DateStates} \cup {<<Unset, en>> : en \in DateStates}
    \cup {<<Pinned(37), Pinned(33)>>, <<Pinned(33), Pinned(37)>>}

\* the request-sequence specification starts from projects as loaded: a pin
\* is a flag with its date (model_to_task, Task.from_dict)
SeqPreds == {<<"B", NoPred, "A">>, <<NoPred, "A", "A">>}

SeqDurations == {<<1, MaxDur, 1>>}

SeqDatePairs ==
    {<<st, en>> : st \in {Unset, Pinned(33)}, en \in {Unset, Pinned(37)}}

\* the last request served: its kind and its arguments
NoOp == [kind |-> "init", date |-> NoDate,
         exclude_weekends |-> FALSE, exclude_holidays |-> FALSE, index |-> 0,
         progress |-> 0, status |-> NOT_STARTED, record_id |-> 0,
         raised |-> FALSE, days |-> 0, result |-> NoDate, holidays |-> {},
         answer |-> FALSE, items |-> <<>>]

NoSummary == [start_date |-> NoDate, end_date |-> NoDate, total_days |-> 0]

(***************************************************************************)
(* Request handlers of main.py.                                            *)
(***************************************************************************)
\* the "summary" of calculate_forward / calculate_backward
Summary(ts) ==
    IF Len(ts) > 0 /\ ts[1].start_date # NoDate /\ ts[Len(ts)].end_date # NoDate
    THEN [start_date |-> ts[1].start_date,
          end_date   |-> ts[Len(ts)].end_date,
          total_days |-> (ts[Len(ts)].end_date - ts[1].start_date) + 1]
    ELSE NoSummary

\* POST /api/schedule/forward
CalculateForward ==
    /\ opCount < MaxOps
    /\ \E date \in RequestDates, ew \in BOOLEAN, eh \in BOOLEAN :
         LET scheduler == Scheduler(ew, eh, {})
             result    == calculate_dates(scheduler, tasks, date)
         IN  /\ tasks' = result
             /\ summary' = Summary(result)
             /\ lastOp' = [NoOp EXCEPT !.kind = "forward", !.date = date,
                                       !.exclude_weekends = ew,
                                       !.exclude_holidays = eh]
    /\ opCount' = opCount + 1
    /\ UNCHANGED records

\* POST /api/schedule/backward
CalculateBackward ==
    /\ opCount < MaxOps
    /\ \E date \in RequestDates, ew \in BOOLEAN, eh \in BOOLEAN :
         LET scheduler == Scheduler(ew, eh, {})
             result    == calculate_dates_backward(scheduler, tasks, date)
         IN  /\ tasks' = result
             /\ summary' = Summary(result)
             /\ lastOp' = [NoOp EXCEPT !.kind = "backward", !.date = date,
                                       !.exclude_weekends = ew,
                                       !.exclude_holidays = eh]
    /\ opCount' = opCount + 1
    /\ UNCHANGED records

\* POST /api/tasks/toggle-exclude/{index} (index is 0-based in the request)
ToggleExclude ==
    /\ opCount < MaxOps
    /\ \E index \in 1..Len(tasks) :
         /\ tasks' = [tasks EXCEPT ![index].excluded = ~tasks[index].excluded]
         /\ lastOp' = [NoOp EXCEPT !.kind = "toggle", !.index = index]
    /\ opCount' = opCount + 1
    /\ UNCHANGED <<summary, records>>

\* a project as loaded: tasks with or without pins, nothing scheduled yet
Init ==
    /\ tasks \in TaskLists(SeqPreds, SeqDurations, {2}, SeqDatePairs)
    /\ lastOp = NoOp
    /\ summary = NoSummary
    /\ records = <<>>
    /\ opCount = 0

Next == CalculateForward \/ CalculateBackward \/ ToggleExclude

\* sequences of up to MaxOps scheduling requests
Spec == Init /\ [][Next]_vars

\* any task list the handlers can be called on, and one request on it
InitCall ==
    /\ tasks \in TaskLists(CallPreds, CallDurations, 1..3, CallDatePairs)
    /\ lastOp = NoOp
    /\ summary = NoSummary
    /\ records = <<>>
    /\ opCount = MaxOps - 1

SpecCall == InitCall /\ [][Next]_vars

(***************************************************************************)
(* The progress ledger (progress_manager.py).  A record date is a datetime *)
(* and may carry a time of day: it is the instant day * TicksPerDay + tick,*)
(* and datetime.date() is the day of the instant.  ProgressManager.records *)
(* is a dict; the sequence keeps its insertion order, which the scans      *)
(* follow.  note and issues are stored and read by no operation.           *)
(***************************************************************************)
\* instants per calendar day
TicksPerDay == 2

\* datetime(day, time of day)
At(day, tick) == day * TicksPerDay + tick

\* datetime.date()
DateOf(instant) == instant \div TicksPerDay

\* _find_record_by_task_date comparing the datetimes, not their dates
FindRecordByTaskDate_Exact(recs, task_no, instant) ==
    LET hits == {k \in 1..Len(recs) :
                    recs[k].task_no = task_no /\ recs[k].record_date = instant}
    IN  IF hits = {} THEN 0 ELSE CHOOSE k \in hits : \A m \in hits : k <= m

\* ProgressManager._find_record_by_task_date: the position of the first record
\* of the task on the day of the instant, 0 for None
FindRecordByTaskDate(recs, task_no, instant) ==
    LET hits == {k \in 1..Len(recs) :
                    /\ recs[k].task_no = task_no
                    /\ DateOf(recs[k].record_date) = DateOf(instant)}
    IN  IF hits = {} THEN 0 ELSE CHOOSE k \in hits : \A m \in hits : k <= m

\* the sort key of get_task_history: (record_date, created_at)
KeyLess(a, b) ==
    \/ a.record_date < b.record_date
    \/ a.record_date = b.record_date /\ a.created_at < b.created_at

\* sorted() is stable: r goes behind the records that are not greater
RECURSIVE InsertSorted(_, _)
InsertSorted(sorted, r) ==
    IF sorted = <<>> THEN <<r>>
    ELSE IF KeyLess(r, Head(sorted)) THEN <<r>> \o sorted
    ELSE <<Head(sorted)>> \o InsertSorted(Tail(sorted), r)

RECURSIVE SortRecords(_, _)
SortRecords(recs, k) ==
    IF k = 0 THEN <<>>
    ELSE InsertSorted(SortRecords(recs, k - 1), recs[k])

\* ProgressManager.get_task_history
get_task_history(recs, task_no) ==
    LET own == SelectSeq(recs, LAMBDA r : r.task_no = task_no)
    IN  SortRecords(own, Len(own))

\* the loop of _get_previous_day_progress taking the records of the day itself too
RECURSIVE PreviousLoop_SameDay(_, _, _, _)
PreviousLoop_SameDay(history, k, day, previous) ==
    IF k > Len(history) THEN previous
    ELSE PreviousLoop_SameDay(history, k + 1, day,
                              IF DateOf(history[k].record_date) <= day
                              THEN history[k].progress ELSE previous)

\* the loop of _get_previous_day_progress over the sorted history
RECURSIVE PreviousLoop(_, _, _, _)
PreviousLoop(history, k, day, previous) ==
    IF k > Len(history) THEN previous
    ELSE PreviousLoop(history, k + 1, day,
                      IF DateOf(history[k].record_date) < day
                      THEN history[k].progress ELSE previous)

\* ProgressManager._get_previous_day_progress
get_previous_day_progress(recs, task_no, day) ==
    PreviousLoop(get_task_history(recs, task_no), 1, day, 0)

\* ActualDates with a completion that sets actual_end alone
ActualDates_EndOnly(t, status, record_date) ==
    IF status = IN_PROGRESS /\ t.actual_start = NoDate
    THEN [t EXCEPT !.actual_start = record_date]
    ELSE IF status = COMPLETED
    THEN [t EXCEPT !.actual_end =
                       IF t.actual_end = NoDate THEN record_date ELSE t.actual_end]
    ELSE t

\* "根据状态自动更新实际日期": the actual dates of the task after add_record
ActualDates(t, status, record_date) ==
    IF status = IN_PROGRESS /\ t.actual_start = NoDate
    THEN [t EXCEPT !.actual_start = record_date]
    ELSE IF status = COMPLETED
    THEN [t EXCEPT !.actual_start =
                       IF t.actual_start = NoDate THEN record_date ELSE t.actual_start,
                   !.actual_end =
                       IF t.actual_end = NoDate THEN record_date ELSE t.actual_end]
    ELSE t

\* the task's progress and status read back from its latest record by date
LiveState_Latest(recs, task_no, progress, status) ==
    LET history == get_task_history(recs, task_no)
        latest  == history[Len(history)]
    IN  [progress |-> latest.progress, status |-> latest.status]

\* "更新任务的当前进度和状态": task.progress = progress; task.status = status
LiveState(recs, task_no, progress, status) ==
    [progress |-> progress, status |-> status]

\* add_record appending the record id in the update branch as well
HistoryAfter_Always(task, existing, new_id) ==
    Append(task.progress_history, new_id)

\* task.progress_history after add_record: only a created record is appended
HistoryAfter(task, existing, new_id) ==
    IF existing # 0 THEN task.progress_history
    ELSE Append(task.progress_history, new_id)

\* ProgressManager.add_record on task i of ts: the task list and the ledger
\* it leaves.  new_id is the fresh uuid, now the wall clock (created_at).
add_record(ts, recs, i, progress, status, instant, new_id, now) ==
    LET task      == ts[i]
        existing  == FindRecordByTaskDate(recs, task.task_no, instant)
        increment == progress
                     - get_previous_day_progress(recs, task.task_no, DateOf(instant))
        record    == IF existing # 0
                     THEN [recs[existing] EXCEPT !.progress = progress,
                                                 !.status = status,
                                                 !.increment = increment,
                                                 !.created_at = now]
                     ELSE [record_id   |-> new_id,
                           task_no     |-> task.task_no,
                           record_date |-> instant,
                           progress    |-> progress,
                           status      |-> status,
                           increment   |-> increment,
                           created_at  |-> now]
        history   == HistoryAfter(task, existing, new_id)
        ledger    == IF existing # 0 THEN [recs EXCEPT ![existing] = record]
                     ELSE Append(recs, record)
        live      == LiveState(ledger, task.task_no, progress, status)
        updated   == ActualDates([task EXCEPT !.progress_history = history,
                                              !.progress = live.progress,
                                              !.status = live.status],
                                 status, record.record_date)
    IN  [tasks   |-> [ts EXCEPT ![i] = updated],
         records |-> ledger]

\* the record dates submitted: midnights of three days, and an afternoon
RecordInstants == {At(1, 0), At(2, 0), At(2, 1), At(3, 0)}

\* the (progress, status) pairs submitted
Submissions == {<<20, IN_PROGRESS>>, <<50, PAUSED>>, <<45, NOT_STARTED>>,
                <<100, COMPLETED>>}

\* progress_manager.add_record(task=..., progress=..., status=...,
\* record_date=...), as the importer and the request handler call it; the
\* call's ordinal stands for the wall clock and for the fresh record id
AddRecord ==
    /\ opCount < MaxCalls
    /\ \E index \in 1..Len(tasks), sub \in Submissions, instant \in RecordInstants :
         LET out == add_record(tasks, records, index, sub[1], sub[2], instant,
                               opCount + 1, opCount + 1)
         IN  /\ tasks' = out.tasks
             /\ records' = out.records
             /\ lastOp' = [NoOp EXCEPT !.kind = "record", !.index = index,
                                       !.date = instant, !.progress = sub[1],
                                       !.status = sub[2]]
    /\ opCount' = opCount + 1
    /\ UNCHANGED summary

\* two tasks without progress and an empty ledger
InitLedger ==
    /\ tasks = <<Plain(1, NoPred, 1), Plain(2, "A", 1)>>
    /\ lastOp = NoOp
    /\ summary = NoSummary
    /\ records = <<>>
    /\ opCount = 0

NextLedger == AddRecord

SpecLedger == InitLedger /\ [][NextLedger]_vars

(***************************************************************************)
(* The progress endpoints of main.py.  Saving the project afterwards       *)
(* writes files and changes neither the tasks nor the ledger in memory.    *)
(***************************************************************************)
\* request.record_date: "%Y-%m-%d" parses to midnight; an absent date is
\* datetime.now(), here the afternoon of day 2
RequestInstants == {At(1, 0), At(2, 0), At(2, 1)}

\* "自动更新实际日期（与进度联动）" writing the actual dates whether set or not
ProgressDates_Overwrite(t, progress, actual_date) ==
    [t EXCEPT !.actual_start = IF progress > 0 THEN actual_date ELSE @,
              !.actual_end   = IF progress = 100 THEN actual_date ELSE @]

\* record_progress, "自动更新实际日期（与进度联动）": actual dates by progress
ProgressDates(t, progress, actual_date) ==
    [t EXCEPT !.actual_start =
                  IF progress > 0 /\ t.actual_start = NoDate THEN actual_date ELSE @,
              !.actual_end =
                  IF progress = 100 /\ t.actual_end = NoDate THEN actual_date ELSE @]

\* "if request.task_index < 0 or request.task_index >= len(app_state.tasks)";
\* the model counts positions from 1
IndexInRange(ts, index) == index \in 1..Len(ts)

\* the task_index values of a request: every position of the list, the
\* position before the first and the position after the last
RequestIndices(ts) == 0..(Len(ts) + 1)

\* POST /api/progress/record: an index out of range is answered 404 before
\* anything is read or written
RecordProgress ==
    /\ opCount < MaxCalls
    /\ \E index \in RequestIndices(tasks), sub \in Submissions, instant \in RequestInstants :
         IF ~IndexInRange(tasks, index)
         THEN /\ UNCHANGED <<tasks, records>>
              /\ lastOp' = [NoOp EXCEPT !.kind = "progress_404", !.index = index,
                                        !.date = instant, !.progress = sub[1],
                                        !.status = sub[2]]
         ELSE LET out  == add_record(tasks, records, index, sub[1], sub[2], instant,
                                     opCount + 1, opCount + 1)
                  task == [out.tasks[index] EXCEPT !.progress = sub[1], !.status = sub[2]]
              IN  /\ tasks' = [out.tasks EXCEPT ![index] = ProgressDates(task, sub[1], instant)]
                  /\ records' = out.records
                  /\ lastOp' = [NoOp EXCEPT !.kind = "progress", !.index = index,
                                            !.date = instant, !.progress = sub[1],
                                            !.status = sub[2]]
    /\ opCount' = opCount + 1
    /\ UNCHANGED summary

\* "if record_id in self.records": what delete_record returns
RecordKnown(recs, record_id) ==
    \E k \in 1..Len(recs) : recs[k].record_id = record_id

\* ProgressManager.delete_record: the ledger without the record of that id
delete_record(recs, record_id) ==
    SelectSeq(recs, LAMBDA r : r.record_id # record_id)

\* list.remove(x): the list without the first occurrence of x
RECURSIVE Remove(_, _)
Remove(list, x) ==
    IF list = <<>> THEN <<>>
    ELSE IF Head(list) = x THEN Tail(list)
    ELSE <<Head(list)>> \o Remove(Tail(list), x)

\* delete_progress_record taking the id out of the task's history before
\* it asks the ledger
DeleteOutcome_HistoryFirst(ts, recs, index, record_id) ==
    [found   |-> RecordKnown(recs, record_id),
     tasks   |-> [ts EXCEPT ![index].progress_history = Remove(@, record_id)],
     records |-> delete_record(recs, record_id)]

\* delete_progress_record once the index is accepted: 404 when delete_record
\* returns False, else the id leaves the history of the task at that index
DeleteOutcome(ts, recs, index, record_id) ==
    IF ~RecordKnown(recs, record_id)
    THEN [found |-> FALSE, tasks |-> ts, records |-> recs]
    ELSE [found   |-> TRUE,
          tasks   |-> [ts EXCEPT ![index].progress_history = Remove(@, record_id)],
          records |-> delete_record(recs, record_id)]

\* an id no record carries (a record id is the ordinal of a call, 1 or more)
UnknownId == 0

\* the record ids a request may name: those of the ledger, those still
\* listed in a history, and an unknown one
RequestIds(ts, recs) ==
    {recs[k].record_id : k \in 1..Len(recs)}
    \cup UNION {{ts[i].progress_history[k] : k \in 1..Len(ts[i].progress_history)} :
                   i \in 1..Len(ts)}
    \cup {UnknownId}

\* DELETE /api/progress/record/{task_index}/{record_id}
DeleteProgressRecord ==
    /\ opCount < MaxCalls
    /\ \E index \in RequestIndices(tasks), record_id \in RequestIds(tasks, records) :
         LET out == IF IndexInRange(tasks, index)
                    THEN DeleteOutcome(tasks, records, index, record_id)
                    ELSE [found |-> FALSE, tasks |-> tasks, records |-> records]
         IN  /\ records' = out.records
             /\ tasks' = out.tasks
             /\ lastOp' = [NoOp EXCEPT !.kind = IF out.found THEN "delete"
                                                ELSE "delete_404",
                                       !.index = index, !.record_id = record_id]
    /\ opCount' = opCount + 1
    /\ UNCHANGED summary

NextProgress == RecordProgress \/ DeleteProgressRecord

\* sequences of up to MaxCalls requests to the progress endpoints
SpecProgress == InitLedger /\ [][NextProgress]_vars

(***************************************************************************)
(* Scheduling a project whose progress is being tracked.                   *)
(***************************************************************************)
\* the list ts after two add_record calls: the first task completed on day
\* 1, the second in progress on day 2
Tracked(ts) ==
    LET first == add_record(ts, <<>>, 1, 100, COMPLETED, At(1, 0), 1, 1)
    IN  add_record(first.tasks, first.records, 2, 20, IN_PROGRESS, At(2, 0), 2, 2)

\* a loaded project with two progress records
InitTracked ==
    /\ \E ts \in TaskLists(SeqPreds, SeqDurations, 1..3, SeqDatePairs) :
         /\ tasks = Tracked(ts).tasks
         /\ records = Tracked(ts).records
    /\ lastOp = NoOp
    /\ summary = NoSummary
    /\ opCount = MaxOps - 2

\* two scheduling requests on a tracked project
SpecTracked == InitTracked /\ [][Next]_vars

(***************************************************************************)
(* The batch progress import (progress_template.py).  A worksheet cell is  *)
(* <<"empty">>, <<"text">> (something float() rejects) or <<"number", h>>, *)
(* the number h / 100: column K is written by the template as "60%" and    *)
(* read back without the percent sign, column L is typed by the user.      *)
(***************************************************************************)
EmptyCell == <<"empty">>
TextCell == <<"text">>
Number(h) == <<"number", h>>

\* int(x) for the float x = h / 100: truncation towards zero
IntOfFloat(h) == IF h >= 0 THEN h \div 100 ELSE 0 - ((0 - h) \div 100)

\* "解析今日增加进度的值": a value within [-1, 1] is a fraction of 100 percent,
\* any other value is the percentage itself
Increment(h) == IF (0 - 100) <= h /\ h <= 100 THEN h ELSE IntOfFloat(h)

\* "解析当前进度": 0 when column K is empty or does not parse
CurrentProgress(cell) == IF cell[1] = "number" THEN IntOfFloat(cell[2]) ELSE 0

\* "计算新进度" without the clamp
NewProgress_Unclamped(current_progress, increment) == current_progress + increment

\* "计算新进度": min(100, max(0, current_progress + increment))
NewProgress(current_progress, increment) ==
    LET sum     == current_progress + increment
        atLeast == IF sum > 0 THEN sum ELSE 0
    IN  IF atLeast < 100 THEN atLeast ELSE 100

\* "自动判断状态", and import_progress's status_map on the status text
DerivedStatus(new_progress) ==
    IF new_progress = 0 THEN NOT_STARTED
    ELSE IF new_progress >= 100 THEN COMPLETED
    ELSE IN_PROGRESS

\* a row is skipped when its project or task number is empty or its
\* increment is not filled in, and reported when the increment is no number
RowSkipped(row) ==
    row.project_name = "" \/ row.task_no = "" \/ row.increment[1] = "empty"

RowInvalid(row) == ~RowSkipped(row) /\ row.increment[1] = "text"

\* the entry parse_template appends to progress_data for an accepted row
ParsedRow(row) ==
    LET current_progress == CurrentProgress(row.current)
        increment        == Increment(row.increment[2])
        new_progress     == NewProgress(current_progress, increment)
    IN  [project_name     |-> row.project_name,
         task_no          |-> row.task_no,
         current_progress |-> current_progress,
         increment        |-> increment,
         new_progress     |-> new_progress,
         status           |-> DerivedStatus(new_progress)]

\* BatchProgressImporter.parse_template: progress_data of the rows, in order
RECURSIVE parse_template(_)
parse_template(rows) ==
    IF rows = <<>> THEN <<>>
    ELSE IF RowSkipped(Head(rows)) \/ RowInvalid(Head(rows))
    THEN parse_template(Tail(rows))
    ELSE <<ParsedRow(Head(rows))>> \o parse_template(Tail(rows))

\* "自动更新实际日期" of import_progress: actual dates by the new progress
ImportDates(t, new_progress, record_date) ==
    [t EXCEPT !.actual_start =
                  IF new_progress > 0 /\ t.actual_start = NoDate THEN record_date ELSE @,
              !.actual_end =
                  IF new_progress = 100 /\ t.actual_end = NoDate THEN record_date ELSE @]

\* task_map = {t.task_no: (i, t) for i, t in enumerate(tasks)}: the index
\* kept under a task number is that of the last task carrying it
ImportTaskMap(ts, task_no) ==
    CHOOSE j \in 1..Len(ts) :
        /\ ts[j].task_no = task_no
        /\ \A m \in (j + 1)..Len(ts) : ts[m].task_no # task_no

\* the loop "for item in items" of import_progress from item k on: an item
\* whose task number is not in task_map is skipped, any other is recorded
\* with add_record and written to the task; clock + k is the wall clock
RECURSIVE ImportItems(_, _, _, _, _, _)
ImportItems(ts, recs, items, k, record_date, clock) ==
    IF k > Len(items) THEN [tasks |-> ts, records |-> recs]
    ELSE IF \A j \in 1..Len(ts) : ts[j].task_no # items[k].task_no
    THEN ImportItems(ts, recs, items, k + 1, record_date, clock)
    ELSE LET idx  == ImportTaskMap(ts, items[k].task_no)
             out  == add_record(ts, recs, idx, items[k].new_progress,
                                items[k].status, record_date, clock + k, clock + k)
             task == [out.tasks[idx] EXCEPT !.progress = items[k].new_progress,
                                            !.status = items[k].status]
         IN  ImportItems([out.tasks EXCEPT
                              ![idx] = ImportDates(task, items[k].new_progress,
                                                   record_date)],
                         out.records, items, k + 1, record_date, clock)

\* the name of the one active project; its data are tasks and records
ProjectName == "P1"

\* ProjectManager.load_project_data returns the pair (tasks, progress_manager)
LoadReturns == 2

\* import_progress unpacks it into tasks, progress_manager, milestones
ImportUnpacks == 3

\* BatchProgressImporter.import_progress: items of a project that is not
\* active are counted as skipped; loading the data of an active project
\* raises ValueError when the unpacking does not match what is returned,
\* before any record is written
import_progress(ts, recs, items, record_date, clock) ==
    LET own == SelectSeq(items, LAMBDA item : item.project_name = ProjectName)
    IN  IF own = <<>> THEN [raised |-> FALSE, tasks |-> ts, records |-> recs]
        ELSE IF ImportUnpacks # LoadReturns
        THEN [raised |-> TRUE, tasks |-> ts, records |-> recs]
        ELSE LET out == ImportItems(ts, recs, own, 1, record_date, clock)
             IN  [raised |-> FALSE, tasks |-> out.tasks, records |-> out.records]

\* rows per uploaded sheet
MaxRows == 2

\* column K: empty, "60%", "90%"
CurrentCells == {EmptyCell, Number(6000), Number(9000)}

\* column L: empty, text, 50%, 100%, -30%, 2.5, -70, 40
IncrementCells == {EmptyCell, TextCell, Number(50), Number(100), Number(0 - 30),
                   Number(250), Number(0 - 7000), Number(4000)}

Row(project_name, task_no, current, increment) ==
    [project_name |-> project_name, task_no |-> task_no,
     current |-> current, increment |-> increment]

\* rows of the active project for a task of the list and for an unknown
\* task, a row of an unknown project and a row without a task number
Rows ==
    {Row(ProjectName, no, k, l) :
        no \in {"A", Missing}, k \in CurrentCells, l \in IncrementCells}
    \cup {Row("P0", "A", EmptyCell, Number(50)),
          Row(ProjectName, "", Number(6000), Number(50))}

Sheets == UNION {[1..n -> Rows] : n \in 1..MaxRows}

\* record_date of the request: "%Y-%m-%d" parses to midnight, an absent
\* date is datetime.now()
ImportInstants == {At(3, 0), At(3, 1)}

\* POST /api/progress/batch-import: parse the sheet and, when it holds data,
\* import it (the request fails when import_progress raises)
BatchImport ==
    /\ opCount < MaxCalls
    /\ \E rows \in Sheets, instant \in ImportInstants :
         LET items == parse_template(rows)
             out   == IF items = <<>>
                      THEN [raised |-> FALSE, tasks |-> tasks, records |-> records]
                      ELSE import_progress(tasks, records, items, instant,
                                           opCount * MaxRows)
         IN  /\ tasks' = out.tasks
             /\ records' = out.records
             /\ lastOp' = [NoOp EXCEPT !.kind = "import", !.items = items,
                                       !.date = instant, !.raised = out.raised]
    /\ opCount' = opCount + 1
    /\ UNCHANGED summary

\* a project with two progress records, one request left
InitImport ==
    /\ tasks = Tracked(<<Plain(1, NoPred, 1), Plain(2, "A", 1)>>).tasks
    /\ records = Tracked(<<Plain(1, NoPred, 1), Plain(2, "A", 1)>>).records
    /\ lastOp = NoOp
    /\ summary = NoSummary
    /\ opCount = MaxCalls - 1

NextImport == BatchImport

SpecImport == InitImport /\ [][NextImport]_vars

(***************************************************************************)
(* CsvHandler._sort_by_predecessor (csv_handler.py).  The sort reads the   *)
(* text of task_no and predecessor, so here both are strings spelled out   *)
(* as sequences of characters: "1.2" is <<"1", ".", "2">>.                 *)
(***************************************************************************)
\* ord(c) of the characters used
Ord(c) ==
    CASE c = "," -> 44 [] c = "." -> 46 [] c = "1" -> 49 [] c = "2" -> 50
      [] c = ";" -> 59 [] c = "a" -> 97 [] c = "b" -> 98

IsDigit(c) == c \in {"1", "2"}

\* str.split(sep) for a set of one-character separators: every part, the
\* empty ones included
RECURSIVE SplitOn(_, _, _)
SplitOn(text, seps, part) ==
    IF text = <<>> THEN <<part>>
    ELSE IF Head(text) \in seps THEN <<part>> \o SplitOn(Tail(text), seps, <<>>)
    ELSE SplitOn(Tail(text), seps, Append(part, Head(text)))

\* int(part) of a run of digits
RECURSIVE IntOf(_, _)
IntOf(part, acc) ==
    IF part = <<>> THEN acc
    ELSE IntOf(Tail(part), 10 * acc + (Ord(Head(part)) - 48))

\* one element of the key: int(part), or the part itself when int() raises
\* ValueError
KeyPart(part) ==
    IF part # <<>> /\ \A k \in 1..Len(part) : IsDigit(part[k])
    THEN [type |-> "int", int |-> IntOf(part, 0), str |-> <<>>]
    ELSE [type |-> "str", int |-> 0, str |-> part]

\* (float('inf'),)
InfKey == <<[type |-> "inf", int |-> 0, str |-> <<>>]>>

\* CsvHandler._parse_task_no
parse_task_no(task_no) ==
    IF task_no = <<>> THEN InfKey
    ELSE LET parts == SplitOn(task_no, {"."}, <<>>)
         IN  [k \in 1..Len(parts) |-> KeyPart(parts[k])]

\* a < b for two strings: by code point, a proper prefix first
RECURSIVE StrLess(_, _)
StrLess(a, b) ==
    IF b = <<>> THEN FALSE
    ELSE IF a = <<>> THEN TRUE
    ELSE IF Head(a) # Head(b) THEN Ord(Head(a)) < Ord(Head(b))
    ELSE StrLess(Tail(a), Tail(b))

\* x < y for two elements of keys: "lt", "ge", or "TypeError" between a
\* str and a number
PartLess(x, y) ==
    IF (x.type = "str") # (y.type = "str") THEN "TypeError"
    ELSE IF x.type = "str" THEN (IF StrLess(x.str, y.str) THEN "lt" ELSE "ge")
    ELSE IF x.type = "inf" THEN "ge"
    ELSE IF y.type = "inf" THEN "lt"
    ELSE IF x.int < y.int THEN "lt" ELSE "ge"

\* a < b for two tuples: the first elements that are not equal decide, a
\* proper prefix is less
RECURSIVE TupleLess(_, _)
TupleLess(a, b) ==
    IF b = <<>> THEN "ge"
    ELSE IF a = <<>> THEN "lt"
    ELSE IF Head(a) # Head(b) THEN PartLess(Head(a), Head(b))
    ELSE TupleLess(Tail(a), Tail(b))

\* sorted(tasks, key=...): stable, t goes behind the tasks that are not greater
RECURSIVE InsertByTaskNo(_, _)
InsertByTaskNo(sorted, t) ==
    IF sorted = <<>> THEN <<t>>
    ELSE IF TupleLess(parse_task_no(t.task_no), parse_task_no(Head(sorted).task_no)) = "lt"
    THEN <<t>> \o sorted
    ELSE <<Head(sorted)>> \o InsertByTaskNo(Tail(sorted), t)

RECURSIVE SortedByTaskNo(_, _)
SortedByTaskNo(ts, k) ==
    IF k = 0 THEN <<>>
    ELSE InsertByTaskNo(SortedByTaskNo(ts, k - 1), ts[k])

\* sorted() raises TypeError when it has to order two keys that do not compare
SortRaises(ts) ==
    \E i, j \in 1..Len(ts) :
        TupleLess(parse_task_no(ts[i].task_no), parse_task_no(ts[j].task_no)) = "TypeError"

\* the keys of task_map = {t.task_no: t for t in tasks if t.task_no}
SortMapKeys(ts) == {ts[k].task_no : k \in 1..Len(ts)} \ {<<>>}

\* the position of d[task_no] for a dict filled in list order: the last task
\* of that number
LastWithNo(ts, task_no) ==
    CHOOSE k \in 1..Len(ts) :
        /\ ts[k].task_no = task_no
        /\ \A m \in (k + 1)..Len(ts) : ts[m].task_no # task_no

\* the predecessor field taken as one reference, as the scheduler reads it
References_Whole(predecessor) == {predecessor} \ {<<>>}

\* the references of a predecessor field: re.split(r'[,，、\s]+', ...), the
\* empty parts dropped
References(predecessor) ==
    LET parts == SplitOn(predecessor, {","}, <<>>)
    IN  {parts[k] : k \in 1..Len(parts)} \ {<<>>}

\* dependencies[task_no]
Dependencies(ts, task_no) ==
    References(ts[LastWithNo(ts, task_no)].predecessor) \cap SortMapKeys(ts)

\* the order in which "for dep in deps" yields a set: the order of the
\* elements in rank, a listing of the task numbers
IterationOrder(deps, rank) == SelectSeq(rank, LAMBDA no : no \in deps)

\* visit(task_no), with the loop over its dependencies; mark is
\* [visited, sorted_tasks], temp_visited is passed down
RECURSIVE Visit(_, _, _, _, _)
RECURSIVE VisitAll(_, _, _, _, _, _)
Visit(ts, rank, mark, temp_visited, task_no) ==
    IF task_no \in temp_visited THEN mark
    ELSE IF task_no \in mark.visited THEN mark
    ELSE LET deps  == IterationOrder(Dependencies(ts, task_no), rank)
             after == VisitAll(ts, rank, mark, temp_visited \cup {task_no}, deps, 1)
         IN  [visited      |-> after.visited \cup {task_no},
              sorted_tasks |-> Append(after.sorted_tasks, ts[LastWithNo(ts, task_no)])]

VisitAll(ts, rank, mark, temp_visited, deps, k) ==
    IF k > Len(deps) THEN mark
    ELSE VisitAll(ts, rank, Visit(ts, rank, mark, temp_visited, deps[k]),
                  temp_visited, deps, k + 1)

\* "for task in sorted(tasks, ...): if task.task_no and task.task_no not in
\* visited: visit(task.task_no)"
RECURSIVE VisitInOrder(_, _, _, _, _)
VisitInOrder(ts, rank, order, k, mark) ==
    IF k > Len(order) THEN mark
    ELSE VisitInOrder(ts, rank, order, k + 1,
                      IF order[k].task_no # <<>> /\ order[k].task_no \notin mark.visited
                      THEN Visit(ts, rank, mark, {}, order[k].task_no)
                      ELSE mark)

\* "for task in tasks: if not task.task_no or task not in sorted_tasks:
\* sorted_tasks.append(task)"; `in` compares the tasks field by field
RECURSIVE AppendRest(_, _, _)
AppendRest(ts, k, sorted_tasks) ==
    IF k > Len(ts) THEN sorted_tasks
    ELSE AppendRest(ts, k + 1,
                    IF \/ ts[k].task_no = <<>>
                       \/ \A m \in 1..Len(sorted_tasks) : sorted_tasks[m] # ts[k]
                    THEN Append(sorted_tasks, ts[k]) ELSE sorted_tasks)

\* CsvHandler._sort_by_predecessor: the list returned, or raised = TRUE when
\* the call ends in a TypeError
sort_by_predecessor(ts, rank) ==
    IF ts = <<>> THEN [raised |-> FALSE, tasks |-> ts]
    ELSE IF SortRaises(ts) THEN [raised |-> TRUE, tasks |-> <<>>]
    ELSE LET order == SortedByTaskNo(ts, Len(ts))
             mark  == VisitInOrder(ts, rank, order, 1,
                                   [visited |-> {}, sorted_tasks |-> <<>>])
         IN  [raised |-> FALSE, tasks |-> AppendRest(ts, 1, mark.sorted_tasks)]

\* the task numbers of the lists sorted: hierarchical numbers, letters, a
\* task without number, and numbers mixed with letters
SortNos ==
    {<<(<<"2">>), (<<"1">>), (<<"1", ".", "1">>)>>,
     <<(<<"b">>), (<<"a", ".", "1">>), (<<"a">>)>>,
     <<(<<"2">>), (<<>>), (<<"1">>)>>,
     <<(<<"1">>), (<<"a">>), (<<"2">>)>>}

\* the predecessor fields written against the numbers nos: none, one
\* reference (to itself too), two references separated by a comma, two
\* numbers separated by a semicolon, a number no task has
PredFields(nos) ==
    LET named == {nos[k] : k \in 1..Len(nos)} \ {<<>>}
    IN  {<<>>, <<"2", ".", "2">>, nos[1] \o <<";">> \o nos[3],
         nos[3] \o <<",">> \o nos[1]}
        \cup named
        \cup {nos[i] \o <<",">> \o nos[j] :
                 i \in {k \in 1..2 : nos[k] # <<>>},
                 j \in {k \in 2..3 : nos[k] # <<>>}}

\* lists of three tasks to sort
SortLists ==
    UNION {{[i \in 1..3 |->
                Task(nos[i], 1, p[i], NoDate, FALSE, NoDate, FALSE, FALSE)] :
            p \in [1..3 -> PredFields(nos)]} : nos \in SortNos}

\* the listings of the task numbers of ts
Ranks(ts) ==
    LET named == {ts[k].task_no : k \in 1..Len(ts)}
        n     == Cardinality(named)
    IN  {r \in [1..n -> named] : \A i, j \in 1..n : i # j => r[i] # r[j]}

\* CsvHandler.sort_tasks(tasks, "predecessor"): the caller keeps its list
\* when the call raises
SortByPredecessor ==
    /\ opCount < MaxOps
    /\ \E rank \in Ranks(tasks) :
         LET out == sort_by_predecessor(tasks, rank)
         IN  /\ tasks' = IF out.raised THEN tasks ELSE out.tasks
             /\ lastOp' = [NoOp EXCEPT !.kind = "sort", !.raised = out.raised]
    /\ opCount' = opCount + 1
    /\ UNCHANGED <<summary, records>>

InitSort ==
    /\ tasks \in SortLists
    /\ lastOp = NoOp
    /\ summary = NoSummary
    /\ records = <<>>
    /\ opCount = MaxOps - 1

NextSort == SortByPredecessor

\* one call of the sort on a list
SpecSort == InitSort /\ [][NextSort]_vars

(***************************************************************************)
(* The calendar functions of the Scheduler called on their own.  Above, a  *)
(* date is a day number: every datetime the endpoints hand to a Scheduler  *)
(* is parsed with "%Y-%m-%d" and stands at midnight.  A caller of          *)
(* is_workday may pass any datetime and any set of datetimes; there a date *)
(* is an instant At(day, tick).                                            *)
(***************************************************************************)
\* Scheduler.__init__ given a set of datetimes
SchedulerOfDatetimes(exclude_weekends, exclude_holidays, holidays) ==
    [exclude_weekends |-> exclude_weekends,
     exclude_holidays |-> exclude_holidays,
     holidays         |-> IF holidays = {} THEN {At(h, 0) : h \in DEFAULT_HOLIDAYS}
                          ELSE holidays]

\* Scheduler.is_workday on a datetime: "date in self.holidays" compares the
\* datetimes, time of day included
is_workday_datetime(s, date) ==
    IF s.exclude_weekends /\ weekday(DateOf(date)) >= 5 THEN FALSE
    ELSE IF s.exclude_holidays /\ date \in s.holidays THEN FALSE
    ELSE TRUE

\* days around 2025-01-01 and around the holidays 2025-01-28..02-04
CalendarDays == (26..37) \cup (54..66)

\* the holidays argument as day numbers; {} is also the absent argument
CallerHolidays == {{}, {31}, {36, 37}}

\* the holidays argument as datetimes
CallerDatetimes == {{}, {At(31, 0)}, {At(28, 0), At(29, 1)}}

WorkdayCounts == (0 - 1)..MaxDays

\* scheduler.add_workdays(start_date, days)
AddWorkdaysCall ==
    /\ opCount < MaxOps
    /\ \E ew \in BOOLEAN, eh \in BOOLEAN, holidays \in CallerHolidays,
          start_date \in CalendarDays, days \in WorkdayCounts :
         lastOp' = [NoOp EXCEPT !.kind = "add_workdays",
                                !.exclude_weekends = ew, !.exclude_holidays = eh,
                                !.holidays = holidays,
                                !.date = start_date, !.days = days,
                                !.result = add_workdays(Scheduler(ew, eh, holidays),
                                                        start_date, days)]
    /\ opCount' = opCount + 1
    /\ UNCHANGED <<tasks, summary, records>>

\* scheduler.subtract_workdays(end_date, days)
SubtractWorkdaysCall ==
    /\ opCount < MaxOps
    /\ \E ew \in BOOLEAN, eh \in BOOLEAN, holidays \in CallerHolidays,
          end_date \in CalendarDays, days \in WorkdayCounts :
         lastOp' = [NoOp EXCEPT !.kind = "subtract_workdays",
                                !.exclude_weekends = ew, !.exclude_holidays = eh,
                                !.holidays = holidays,
                                !.date = end_date, !.days = days,
                                !.result = subtract_workdays(Scheduler(ew, eh, holidays),
                                                             end_date, days)]
    /\ opCount' = opCount + 1
    /\ UNCHANGED <<tasks, summary, records>>

\* scheduler.is_workday(date)
IsWorkdayCall ==
    /\ opCount < MaxOps
    /\ \E ew \in BOOLEAN, eh \in BOOLEAN, holidays \in CallerDatetimes,
          day \in CalendarDays, tick \in 0..(TicksPerDay - 1) :
         lastOp' = [NoOp EXCEPT !.kind = "is_workday",
                                !.exclude_weekends = ew, !.exclude_holidays = eh,
                                !.holidays = holidays,
                                !.date = At(day, tick),
                                !.answer = is_workday_datetime(
                                               SchedulerOfDatetimes(ew, eh, holidays),
                                               At(day, tick))]
    /\ opCount' = opCount + 1
    /\ UNCHANGED <<tasks, summary, records>>

InitCalendar ==
    /\ tasks = <<>>
    /\ lastOp = NoOp
    /\ summary = NoSummary
    /\ records = <<>>
    /\ opCount = MaxOps - 1

NextCalendar == AddWorkdaysCall \/ SubtractWorkdaysCall \/ IsWorkdayCall

\* one call of a calendar function on a Scheduler
SpecCalendar == InitCalendar /\ [][NextCalendar]_vars

\* the loop of get_workdays_between: "while current <= end"
RECURSIVE WorkdaysLoop(_, _, _, _)
WorkdaysLoop(s, current, end, count) ==
    IF current > end THEN count
    ELSE WorkdaysLoop(s, current + 1, end,
                      IF is_workday(s, current) THEN count + 1 ELSE count)

\* Scheduler.get_workdays_between
get_workdays_between(s, start, end) ==
    IF start > end THEN 0 ELSE WorkdaysLoop(s, start, end, 0)

(***************************************************************************)
(* Vocabulary of the properties.                                           *)
(***************************************************************************)
\* longest stretch searched for a workable day by the reference definitions
SearchSpan == 14

\* the Scheduler the last scheduling request built
SchedulerOf(op) == Scheduler(op.exclude_weekends, op.exclude_holidays, {})

IsSchedule(op) == op.kind \in {"forward", "backward"}

\* the first workable day on or after d, and the last one on or before d
FirstWorkdayFrom(s, d) ==
    CHOOSE x \in d..(d + SearchSpan) :
        is_workday(s, x) /\ \A y \in d..(x - 1) : ~is_workday(s, y)

LastWorkdayUpTo(s, d) ==
    CHOOSE x \in (d - SearchSpan)..d :
        is_workday(s, x) /\ \A y \in (x + 1)..d : ~is_workday(s, y)

\* the position of the task a predecessor reference names, 0 when it names none
Resolve(ts, no) ==
    IF \E j \in 1..Len(ts) : ts[j].task_no = no
    THEN CHOOSE j \in 1..Len(ts) : ts[j].task_no = no ELSE 0

\* a date field that is pinned and set when a pass starts
StartPinned(t) == t.manual_start /\ t.start_date # NoDate
EndPinned(t)   == t.manual_end /\ t.end_date # NoDate

\* the nearest non-excluded task before position i, 0 when there is none
NearestBefore(ts, i) ==
    IF \E j \in 1..(i - 1) : ~ts[j].excluded
    THEN CHOOSE j \in 1..(i - 1) :
             ~ts[j].excluded /\ \A k \in (j + 1)..(i - 1) : ts[k].excluded
    ELSE 0

Minimum(S) == CHOOSE x \in S : \A y \in S : x <= y

(***************************************************************************)
(* C1  After a forward pass, a non-excluded task whose start is not pinned *)
(* and whose predecessor is a known, non-excluded task that has an end     *)
(* date when the task is processed (it is listed earlier, or its end is    *)
(* pinned) starts on the first workday strictly after the predecessor's    *)
(* end, and ends at add_workdays(start, duration) unless its end is pinned.*)
(***************************************************************************)
C1_Case(pre, i, j) ==
    /\ ~pre[i].excluded /\ ~pre[i].manual_start
    /\ pre[i].predecessor # NoPred
    /\ j = Resolve(pre, pre[i].predecessor) /\ j # 0
    /\ ~pre[j].excluded
    /\ (j < i \/ EndPinned(pre[j]))

C1_Holds(pre, post, s) ==
    \A i \in 1..Len(pre) : \A j \in 1..Len(pre) :
        C1_Case(pre, i, j) =>
            /\ post[i].start_date = FirstWorkdayFrom(s, post[j].end_date + 1)
            /\ ~pre[i].manual_end =>
                   post[i].end_date = add_workdays(s, post[i].start_date, pre[i].duration)

C1_ForwardAfterPredecessor ==
    [][lastOp'.kind = "forward" => C1_Holds(tasks, tasks', SchedulerOf(lastOp'))]_vars

\* a forward pass with weekends excluded has placed a task on the Monday
\* after its predecessor's Friday end
C1_Witness ==
    /\ lastOp.kind = "forward" /\ lastOp.exclude_weekends
    /\ \E i \in 2..3 : \E j \in 1..(i - 1) :
         /\ ~tasks[i].excluded /\ ~tasks[j].excluded /\ ~tasks[i].manual_start
         /\ tasks[i].predecessor = tasks[j].task_no
         /\ weekday(tasks[j].end_date) = 4
         /\ tasks[i].start_date = tasks[j].end_date + 3

(***************************************************************************)
(* C2  After a backward pass, a non-excluded task whose end is not pinned  *)
(* ends on the last workday strictly before the earliest start among its   *)
(* successors that have a start date when it is processed (listed later,   *)
(* or start pinned); without any successor it ends on the deadline, moved  *)
(* back to a workday.                                                      *)
(***************************************************************************)
Successors(ts, i) ==
    {j \in 1..Len(ts) : ts[j].predecessor # NoPred /\ ts[j].predecessor = ts[i].task_no}

ComputedSuccessors(pre, i) ==
    {j \in Successors(pre, i) : ~pre[j].excluded /\ (j > i \/ StartPinned(pre[j]))}

C2_Holds(pre, post, s, deadline) ==
    \A i \in 1..Len(pre) :
        (~pre[i].excluded /\ ~pre[i].manual_end) =>
            /\ ComputedSuccessors(pre, i) # {} =>
                 post[i].end_date =
                    LastWorkdayUpTo(s,
                        Minimum({post[j].start_date : j \in ComputedSuccessors(pre, i)}) - 1)
            /\ Successors(pre, i) = {} =>
                 post[i].end_date = LastWorkdayUpTo(s, deadline)

C2_BackwardBeforeSuccessors ==
    [][lastOp'.kind = "backward" =>
          C2_Holds(tasks, tasks', SchedulerOf(lastOp'), lastOp'.date)]_vars

\* a backward pass has placed a task before the earlier of two successors
\* that start on different days
C2_Witness ==
    /\ lastOp.kind = "backward"
    /\ \E i \in 1..3 : \E j, k \in Successors(tasks, i) :
         /\ ~tasks[i].excluded /\ ~tasks[i].manual_end
         /\ j > i /\ k > i /\ ~tasks[j].excluded /\ ~tasks[k].excluded
         /\ tasks[j].start_date < tasks[k].start_date
         /\ tasks[i].end_date < tasks[j].start_date

(***************************************************************************)
(* C3  Pin preservation.  As claimed: across every forward and backward    *)
(* pass a task with manual_start keeps its start date and a task with      *)
(* manual_end keeps its end date.                                          *)
(***************************************************************************)
C3_Original ==
    [][IsSchedule(lastOp') =>
          \A i \in 1..Len(tasks) :
              /\ tasks[i].manual_start => tasks'[i].start_date = tasks[i].start_date
              /\ tasks[i].manual_end => tasks'[i].end_date = tasks[i].end_date]_vars

\* C3 as amended: every pass keeps the pinned start and the pinned end of
\* each task that is not excluded when the pass runs.
C3_PinsOfIncludedTasksKept ==
    [][IsSchedule(lastOp') =>
          \A i \in 1..Len(tasks) :
              ~tasks[i].excluded =>
                  /\ StartPinned(tasks[i]) =>
                         tasks'[i].start_date = tasks[i].start_date
                  /\ EndPinned(tasks[i]) =>
                         tasks'[i].end_date = tasks[i].end_date]_vars

\* after two requests, a forward pass from 2025-01-31 has left the start
\* pinned to 2025-01-04 where it was, and dated the other tasks
C3_Witness ==
    /\ lastOp.kind = "forward" /\ lastOp.date = 60 /\ opCount >= 2
    /\ ~tasks[2].excluded /\ tasks[2].manual_start /\ tasks[2].start_date = 33
    /\ tasks[1].start_date >= 60

(***************************************************************************)
(* C4  After a forward or backward pass every excluded task has both dates *)
(* unset, whatever dates and flags it had, and the dates of the other      *)
(* tasks do not depend on the dates the excluded tasks had: the pass gives *)
(* the included tasks the dates it gives them when the excluded tasks      *)
(* carry no date and no flag at all.                                       *)
(***************************************************************************)
Scrub(ts) ==
    [i \in 1..Len(ts) |->
        IF ts[i].excluded
        THEN [ts[i] EXCEPT !.start_date = NoDate, !.end_date = NoDate,
                           !.manual_start = FALSE, !.manual_end = FALSE]
        ELSE ts[i]]

C4_Holds(pre, post, scrubbed) ==
    \A i \in 1..Len(pre) :
        /\ pre[i].excluded =>
               post[i].start_date = NoDate /\ post[i].end_date = NoDate
        /\ ~pre[i].excluded =>
               /\ post[i].start_date = scrubbed[i].start_date
               /\ post[i].end_date = scrubbed[i].end_date

C4_ExcludedUnsetAndIgnored ==
    [][/\ lastOp'.kind = "forward" =>
            C4_Holds(tasks, tasks',
                     calculate_dates(SchedulerOf(lastOp'), Scrub(tasks), lastOp'.date))
       /\ lastOp'.kind = "backward" =>
            C4_Holds(tasks, tasks',
                     calculate_dates_backward(SchedulerOf(lastOp'), Scrub(tasks),
                                              lastOp'.date))]_vars

\* a pass has run over a list whose excluded task is flagged manual and is
\* the predecessor of an included task
C4_Witness ==
    /\ IsSchedule(lastOp)
    /\ \E i, j \in 1..3 :
         /\ tasks[i].excluded /\ tasks[i].manual_end /\ tasks[i].end_date = NoDate
         /\ ~tasks[j].excluded /\ tasks[j].predecessor = tasks[i].task_no
         /\ tasks[j].start_date # NoDate

(***************************************************************************)
(* C5  As claimed: after a forward or backward pass every non-excluded     *)
(* task has end_date >= start_date, pinned dates included.                 *)
(***************************************************************************)
C5_Original ==
    IsSchedule(lastOp) =>
        \A i \in 1..Len(tasks) :
            ~tasks[i].excluded => tasks[i].end_date >= tasks[i].start_date

\* C5 as amended: after a forward pass every non-excluded task whose end is
\* not pinned, and after a backward pass every non-excluded task whose start
\* is not pinned, has end_date >= start_date.
C5_EndNotBeforeStart ==
    /\ lastOp.kind = "forward" =>
         \A i \in 1..Len(tasks) :
             (~tasks[i].excluded /\ ~tasks[i].manual_end) =>
                 tasks[i].end_date >= tasks[i].start_date
    /\ lastOp.kind = "backward" =>
         \A i \in 1..Len(tasks) :
             (~tasks[i].excluded /\ ~tasks[i].manual_start) =>
                 tasks[i].end_date >= tasks[i].start_date

\* a forward pass has computed, from a start pinned to a Saturday, an end
\* two workdays later
C5_Witness ==
    /\ lastOp.kind = "forward" /\ lastOp.exclude_weekends
    /\ \E i \in 1..3 :
         /\ ~tasks[i].excluded /\ tasks[i].manual_start /\ ~tasks[i].manual_end
         /\ tasks[i].start_date = 33 /\ tasks[i].duration = 2
         /\ tasks[i].end_date = 36

(***************************************************************************)
(* C6  Idempotence: a second forward pass with the same project start and  *)
(* calendar leaves the dates of the first, and likewise a second backward  *)
(* pass with the same deadline.                                            *)
(***************************************************************************)
C6_Idempotent ==
    /\ lastOp.kind = "forward" =>
         calculate_dates(SchedulerOf(lastOp), tasks, lastOp.date) = tasks
    /\ lastOp.kind = "backward" =>
         calculate_dates_backward(SchedulerOf(lastOp), tasks, lastOp.date) = tasks

PredMissing(ts, i) ==
    ts[i].predecessor # NoPred /\ Resolve(ts, ts[i].predecessor) = 0

PredExcluded(ts, i) ==
    /\ ts[i].predecessor # NoPred /\ Resolve(ts, ts[i].predecessor) # 0
    /\ ts[Resolve(ts, ts[i].predecessor)].excluded

PredNotYetComputed(ts, i) ==
    /\ ts[i].predecessor # NoPred /\ Resolve(ts, ts[i].predecessor) >= i
    /\ ~ts[Resolve(ts, ts[i].predecessor)].excluded
    /\ ~ts[Resolve(ts, ts[i].predecessor)].manual_end

StartWithoutPredecessor(ts, i, s, project_start) ==
    IF NearestBefore(ts, i) # 0
    THEN FirstWorkdayFrom(s, ts[NearestBefore(ts, i)].end_date + 1)
    ELSE FirstWorkdayFrom(s, project_start)

C9_Original ==
    lastOp.kind = "forward" =>
        \A i \in 1..Len(tasks) :
            (/\ ~tasks[i].excluded /\ ~tasks[i].manual_start
             /\ tasks[i].predecessor = NoPred) =>
                tasks[i].start_date =
                    IF NearestBefore(tasks, i) # 0
                    THEN FirstWorkdayFrom(SchedulerOf(lastOp),
                                          tasks[NearestBefore(tasks, i)].end_date)
                    ELSE lastOp.date

\* C9 as amended: it starts on the first workday strictly after that end
\* date, and on the first workday on or after the project start if there is
\* no preceding non-excluded task.
C9_NoPredecessor ==
    lastOp.kind = "forward" =>
        \A i \in 1..Len(tasks) :
            (/\ ~tasks[i].excluded /\ ~tasks[i].manual_start
             /\ tasks[i].predecessor = NoPred) =>
                tasks[i].start_date =
                    StartWithoutPredecessor(tasks, i, SchedulerOf(lastOp), lastOp.date)

\* a forward pass has placed a task without predecessor behind the included
\* task two places before it, the task between them being excluded
C9_Witness ==
    /\ lastOp.kind = "forward" /\ lastOp.exclude_weekends
    /\ ~tasks[3].excluded /\ ~tasks[3].manual_start /\ tasks[3].predecessor = NoPred
    /\ tasks[2].excluded /\ ~tasks[1].excluded
    /\ tasks[3].start_date = FirstWorkdayFrom(SchedulerOf(lastOp), tasks[1].end_date + 1)

(***************************************************************************)
(* C10  Upsert: after any sequence of add_record calls the ledger holds at *)
(* most one record per task and calendar day, and a call for a task and    *)
(* day that already have a record adds none: it updates that record, which *)
(* keeps its record_id and its place.                                      *)
(***************************************************************************)
OnePerTaskAndDay(recs) ==
    \A k, m \in 1..Len(recs) :
        (/\ recs[k].task_no = recs[m].task_no
         /\ DateOf(recs[k].record_date) = DateOf(recs[m].record_date)) => k = m

SameTaskAndDay(r, task_no, instant) ==
    r.task_no = task_no /\ DateOf(r.record_date) = DateOf(instant)

C10_Upsert ==
    [][lastOp'.kind = "record" =>
          /\ OnePerTaskAndDay(records')
          /\ \A k \in 1..Len(records) :
                SameTaskAndDay(records[k], tasks[lastOp'.index].task_no, lastOp'.date) =>
                    /\ Len(records') = Len(records)
                    /\ records'[k].record_id = records[k].record_id
                    /\ records'[k].progress = lastOp'.progress]_vars

\* a record made on the afternoon of day 2 has been updated by a later call
\* dated midnight of day 2, and the task has a record of another day too
C10_Witness ==
    /\ lastOp.kind = "record" /\ lastOp.date = At(2, 0)
    /\ \E k, m \in 1..Len(records) :
         /\ records[k].task_no = tasks[lastOp.index].task_no
         /\ records[k].record_date = At(2, 1)
         /\ records[k].created_at = opCount /\ records[k].record_id < opCount
         /\ records[k].progress = lastOp.progress
         /\ records[m].task_no = records[k].task_no /\ m # k

(***************************************************************************)
(* C11  Every add_record call, creating or updating, stores on the record  *)
(* of the task and day  increment = progress - p,  where p is the progress *)
(* of the task's latest record dated strictly before that day, 0 when      *)
(* there is none; a record of the day itself is never the previous value.  *)
(***************************************************************************)
\* the progress of the latest record of the task before the day, by definition
PreviousProgress(recs, task_no, day) ==
    LET before == {k \in 1..Len(recs) :
                      recs[k].task_no = task_no /\ DateOf(recs[k].record_date) < day}
    IN  IF before = {} THEN 0
        ELSE recs[CHOOSE k \in before :
                      \A m \in before : recs[m].record_date <= recs[k].record_date].progress

C11_Increment ==
    [][lastOp'.kind = "record" =>
          LET task_no == tasks[lastOp'.index].task_no
              stored  == {k \in 1..Len(records') :
                             SameTaskAndDay(records'[k], task_no, lastOp'.date)}
          IN  /\ stored # {}
              /\ \A k \in stored :
                    records'[k].increment =
                        lastOp'.progress
                        - PreviousProgress(records, task_no, DateOf(lastOp'.date))]_vars

\* the instance: day 1 at 20 (increment 20), day 2 at 50, then day 2 corrected
\* to 45: the one record of day 2 holds increment 25
C11_Witness ==
    /\ lastOp.kind = "record" /\ lastOp.progress = 45 /\ Len(records) = 2
    /\ records[1].task_no = records[2].task_no
    /\ DateOf(records[1].record_date) = 1 /\ records[1].progress = 20
    /\ records[1].increment = 20
    /\ DateOf(records[2].record_date) = 2 /\ records[2].progress = 45
    /\ records[2].increment = 25 /\ records[2].record_id = 2
    /\ records[2].created_at = 3

(***************************************************************************)
(* C12  Frame of add_record: a call for a task and day that already have a *)
(* record leaves the number of records, their ids and the task's           *)
(* progress_history unchanged; a call for a day without a record appends   *)
(* exactly one record, with a fresh id, and appends exactly that id to the *)
(* task's progress_history; no other task's progress_history changes.      *)
(***************************************************************************)
RecordIds(recs) == {recs[k].record_id : k \in 1..Len(recs)}

C12_Frame ==
    [][lastOp'.kind = "record" =>
          LET i      == lastOp'.index
              exists == \E k \in 1..Len(records) :
                            SameTaskAndDay(records[k], tasks[i].task_no, lastOp'.date)
              n      == Len(records)
          IN  /\ \A j \in 1..Len(tasks) :
                    j # i => tasks'[j].progress_history = tasks[j].progress_history
              /\ exists =>
                    /\ Len(records') = n
                    /\ \A k \in 1..n : records'[k].record_id = records[k].record_id
                    /\ tasks'[i].progress_history = tasks[i].progress_history
              /\ ~exists =>
                    /\ Len(records') = n + 1
                    /\ \A k \in 1..n : records'[k] = records[k]
                    /\ records'[n + 1].record_id \notin RecordIds(records)
                    /\ tasks'[i].progress_history =
                           Append(tasks[i].progress_history, records'[n + 1].record_id)]_vars

\* each task got a record, then the second task's record was updated: two
\* records, one id in each history
C12_Witness ==
    /\ lastOp.kind = "record" /\ lastOp.index = 2 /\ opCount = 3
    /\ Len(records) = 2 /\ records[2].created_at = 3
    /\ tasks[1].progress_history = <<records[1].record_id>>
    /\ tasks[2].progress_history = <<records[2].record_id>>

(***************************************************************************)
(* C13  Actual dates.  As stated: a progress record with status            *)
(* IN_PROGRESS sets the task's actual_start if it is unset, one with       *)
(* status COMPLETED sets actual_start and actual_end if unset, one with    *)
(* status NOT_STARTED or PAUSED changes neither, and a date that is set is *)
(* never overwritten.                                                      *)
(***************************************************************************)
\* t2 is t with each unset actual date set to an instant of the day exactly
\* when its condition holds, and with every set actual date kept
ActualDatesRule(t, t2, day, sets_start, sets_end) ==
    /\ IF t.actual_start # NoDate THEN t2.actual_start = t.actual_start
       ELSE IF sets_start THEN /\ t2.actual_start # NoDate
                               /\ DateOf(t2.actual_start) = day
       ELSE t2.actual_start = NoDate
    /\ IF t.actual_end # NoDate THEN t2.actual_end = t.actual_end
       ELSE IF sets_end THEN /\ t2.actual_end # NoDate
                             /\ DateOf(t2.actual_end) = day
       ELSE t2.actual_end = NoDate

C13_Original ==
    [][lastOp'.kind = "progress" =>
          ActualDatesRule(tasks[lastOp'.index], tasks'[lastOp'.index],
                          DateOf(lastOp'.date),
                          lastOp'.status \in {IN_PROGRESS, COMPLETED},
                          lastOp'.status = COMPLETED)]_vars

\* C13 as amended: ProgressManager.add_record sets the actual dates by status
\* as stated; the record_progress endpoint, which calls it, also sets
\* actual_start (if unset) whenever progress > 0 and actual_end (if unset)
\* whenever progress = 100, whatever the status; no set date is overwritten.
C13_ActualDates ==
    [][lastOp'.kind = "progress" =>
          LET i    == lastOp'.index
              day  == DateOf(lastOp'.date)
              core == add_record(tasks, records, i, lastOp'.progress, lastOp'.status,
                                 lastOp'.date, opCount', opCount').tasks[i]
          IN  /\ ActualDatesRule(tasks[i], core, day,
                                 lastOp'.status \in {IN_PROGRESS, COMPLETED},
                                 lastOp'.status = COMPLETED)
              /\ ActualDatesRule(tasks[i], tasks'[i], day,
                                 \/ lastOp'.status \in {IN_PROGRESS, COMPLETED}
                                 \/ lastOp'.progress > 0,
                                 \/ lastOp'.status = COMPLETED
                                 \/ lastOp'.progress = 100)]_vars

\* a task started on day 1 is completed on day 2: actual_start is kept,
\* actual_end is set
C13_Witness ==
    /\ lastOp.kind = "progress" /\ lastOp.status = COMPLETED
    /\ DateOf(lastOp.date) = 2
    /\ tasks[lastOp.index].actual_start = At(1, 0)
    /\ tasks[lastOp.index].actual_end = lastOp.date

(***************************************************************************)
(* C14  After every add_record call the task's progress and status are the *)
(* values that call submitted, and no other task's progress or status      *)
(* changes: a task shows its most recent call, also when that call was     *)
(* dated earlier than a record the task already has.                       *)
(***************************************************************************)
C14_LastCallWins ==
    [][lastOp'.kind = "record" =>
          \A j \in 1..Len(tasks) :
              IF j = lastOp'.index
              THEN /\ tasks'[j].progress = lastOp'.progress
                   /\ tasks'[j].status = lastOp'.status
              ELSE /\ tasks'[j].progress = tasks[j].progress
                   /\ tasks'[j].status = tasks[j].status]_vars

\* the last call was dated day 1 and the task has a record of day 3 with
\* another progress: the task shows the backdated call
C14_Witness ==
    /\ lastOp.kind = "record" /\ DateOf(lastOp.date) = 1
    /\ tasks[lastOp.index].progress = lastOp.progress
    /\ \E k \in 1..Len(records) :
         /\ records[k].task_no = tasks[lastOp.index].task_no
         /\ DateOf(records[k].record_date) = 3
         /\ records[k].created_at < opCount
         /\ records[k].progress # lastOp.progress

(***************************************************************************)
(* C15  After any sequence of progress records and record deletions every  *)
(* id in every task's progress_history is the id of a record of the        *)
(* ledger: no deletion leaves a dangling reference.                        *)
(***************************************************************************)
C15_NoDanglingReference ==
    \A i \in 1..Len(tasks) :
        \A k \in 1..Len(tasks[i].progress_history) :
            tasks[i].progress_history[k] \in RecordIds(records)

(***************************************************************************)
(* C16  For any task list, cyclic predecessor graphs and self-references   *)
(* included, the sort by predecessor returns a list holding every input    *)
(* task exactly once: its output is a permutation of its input.            *)
(***************************************************************************)
Occurrences(list, t) == Cardinality({k \in 1..Len(list) : list[k] = t})

IsPermutation(a, b) ==
    /\ Len(a) = Len(b)
    /\ \A k \in 1..Len(a) : Occurrences(a, a[k]) = Occurrences(b, a[k])

C16_Permutation ==
    [][lastOp'.kind = "sort" =>
          ~lastOp'.raised /\ IsPermutation(tasks, tasks')]_vars

(***************************************************************************)
(* C17  In the list the sort by predecessor returns, every task stands     *)
(* behind each task its predecessor field refers to, for every reference   *)
(* that lies on no cycle of references -- in an acyclic graph, for every   *)
(* reference.  A reference is a task number of the list standing in the    *)
(* comma-separated predecessor field.                                      *)
(***************************************************************************)
\* the text no stands in the field between commas or the ends of the field
IsReference(field, no) ==
    /\ no # <<>>
    /\ \A k \in 1..Len(no) : no[k] # ","
    /\ \E i \in 1..Len(field) :
         LET last == i + Len(no) - 1
         IN  /\ last <= Len(field)
             /\ SubSeq(field, i, last) = no
             /\ i = 1 \/ field[i - 1] = ","
             /\ last = Len(field) \/ field[last + 1] = ","

\* task i of ts refers to task j of ts
RefersTo(ts, i, j) == IsReference(ts[i].predecessor, ts[j].task_no)

\* a chain of at most n references leads from task i to task j
RECURSIVE Leads(_, _, _, _)
Leads(ts, i, j, n) ==
    /\ n > 0
    /\ \/ RefersTo(ts, i, j)
       \/ \E m \in 1..Len(ts) : RefersTo(ts, i, m) /\ Leads(ts, m, j, n - 1)

OnCycle(ts, i, j) == i = j \/ Leads(ts, j, i, Len(ts))

Positions(list, t) == {k \in 1..Len(list) : list[k] = t}

C17_PredecessorsFirst ==
    [][(lastOp'.kind = "sort" /\ ~lastOp'.raised) =>
          \A i, j \in 1..Len(tasks) :
              (RefersTo(tasks, i, j) /\ ~OnCycle(tasks, i, j)) =>
                  \A p \in Positions(tasks', tasks[i]), q \in Positions(tasks', tasks[j]) :
                      q < p]_vars

\* the list returned holds a task with two references behind both of them,
\* one of which has the greater task number, and two tasks that refer to
\* each other
C17_Witness ==
    /\ lastOp.kind = "sort" /\ ~lastOp.raised
    /\ \E i, j, k \in 1..Len(tasks) :
         /\ j < i /\ k < i /\ j # k
         /\ RefersTo(tasks, i, j) /\ RefersTo(tasks, i, k)
         /\ TupleLess(parse_task_no(tasks[i].task_no),
                      parse_task_no(tasks[j].task_no)) = "lt"
         /\ RefersTo(tasks, j, k) /\ RefersTo(tasks, k, j)

(***************************************************************************)
(* C18  add_workdays(start, n) with n >= 1 is the n-th workable day        *)
(* counted from start, start included when it is workable, hence a         *)
(* workable day whenever an exclusion is active; with no exclusion it is   *)
(* start + (n - 1), as the day-by-day walk gives too; with n <= 0 it is    *)
(* start.                                                                  *)
(***************************************************************************)
WorkdaysIn(s, days) == Cardinality({y \in days : is_workday(s, y)})

\* the n-th workable day from d on, by counting
NthWorkdayFrom(s, d, n) ==
    CHOOSE x \in d..(d + 2 * SearchSpan) :
        is_workday(s, x) /\ WorkdaysIn(s, d..x) = n

\* the Scheduler of the last call of a calendar function on day numbers
CalledScheduler == Scheduler(lastOp.exclude_weekends, lastOp.exclude_holidays,
                             lastOp.holidays)

C18_AddWorkdays ==
    lastOp.kind = "add_workdays" =>
        LET s == CalledScheduler
            n == lastOp.days
        IN  /\ n <= 0 => lastOp.result = lastOp.date
            /\ n >= 1 =>
                  /\ lastOp.result = NthWorkdayFrom(s, lastOp.date, n)
                  /\ (s.exclude_weekends \/ s.exclude_holidays) =>
                         is_workday(s, lastOp.result)
                  /\ (~s.exclude_weekends /\ ~s.exclude_holidays) =>
                         /\ lastOp.result = lastOp.date + (n - 1)
                         /\ AddLoop(s, lastOp.date, 1, n) = lastOp.result

\* five workdays from Saturday 2025-01-25 with weekends and the built-in
\* holidays excluded end on Monday 2025-02-10
C18_Witness ==
    /\ lastOp.kind = "add_workdays"
    /\ lastOp.exclude_weekends /\ lastOp.exclude_holidays /\ lastOp.holidays = {}
    /\ lastOp.date = 54 /\ lastOp.days = 5 /\ lastOp.result = 70

(***************************************************************************)
(* C19  subtract_workdays(end, n) with n >= 1 is the n-th workable day     *)
(* counted backward from end, end included when it is workable; with       *)
(* n <= 0 it is end.  It mirrors add_workdays: for a workable day d and    *)
(* n >= 1, subtract_workdays(add_workdays(d, n), n) = d.  With weekends    *)
(* excluded, a task of duration 5 without successor and with deadline      *)
(* Friday 2025-01-31 ends on 2025-01-31 and starts on Monday 2025-01-27.   *)
(***************************************************************************)
\* the n-th workable day from d back, by counting
NthWorkdayBack(s, d, n) ==
    CHOOSE x \in (d - 2 * SearchSpan)..d :
        is_workday(s, x) /\ WorkdaysIn(s, x..d) = n

C19_SubtractWorkdays ==
    LET s == CalledScheduler
        n == lastOp.days
    IN  /\ lastOp.kind = "subtract_workdays" =>
              /\ n <= 0 => lastOp.result = lastOp.date
              /\ n >= 1 => lastOp.result = NthWorkdayBack(s, lastOp.date, n)
              /\ (n = 5 /\ lastOp.date = 60 /\ s.exclude_weekends
                     /\ ~s.exclude_holidays) =>
                    LET leaf == calculate_dates_backward(s, <<Plain(1, NoPred, 5)>>, 60)[1]
                    IN  leaf.end_date = 60 /\ leaf.start_date = 56
        /\ (lastOp.kind = "add_workdays" /\ n >= 1 /\ is_workday(s, lastOp.date)) =>
              subtract_workdays(s, lastOp.result, n) = lastOp.date

\* the instance: five workdays back from Friday 2025-01-31, weekends excluded
C19_Witness ==
    /\ lastOp.kind = "subtract_workdays"
    /\ lastOp.exclude_weekends /\ ~lastOp.exclude_holidays
    /\ lastOp.date = 60 /\ lastOp.days = 5 /\ lastOp.result = 56

(***************************************************************************)
(* C20  is_workday(date) is false exactly when weekends are excluded and   *)
(* the date is a Saturday or Sunday, or holidays are excluded and the      *)
(* calendar day of the date is the day of a member of the holiday set the  *)
(* caller supplied -- for every supplied set, the empty one included, and  *)
(* every time of day of the date.                                          *)
(***************************************************************************)
C20_IsWorkday ==
    lastOp.kind = "is_workday" =>
        (lastOp.answer =
            ~(\/ lastOp.exclude_weekends /\ weekday(DateOf(lastOp.date)) >= 5
              \/ /\ lastOp.exclude_holidays
                 /\ DateOf(lastOp.date) \in {DateOf(h) : h \in lastOp.holidays}))

(***************************************************************************)
(* C21  The summary returned with a forward or backward schedule holds the *)
(* minimum start_date and the maximum end_date over the non-excluded tasks *)
(* and the span between them in days, wherever the excluded tasks and the  *)
(* earliest and latest task stand in the list.                             *)
(***************************************************************************)
Maximum(S) == CHOOSE x \in S : \A y \in S : y <= x

C21_SummaryOverIncludedTasks ==
    IsSchedule(lastOp) =>
        LET starts == {tasks[i].start_date : i \in {k \in 1..Len(tasks) :
                          ~tasks[k].excluded /\ tasks[k].start_date # NoDate}}
            ends   == {tasks[i].end_date : i \in {k \in 1..Len(tasks) :
                          ~tasks[k].excluded /\ tasks[k].end_date # NoDate}}
        IN  IF starts = {} \/ ends = {} THEN summary = NoSummary
            ELSE /\ summary.start_date = Minimum(starts)
                 /\ summary.end_date = Maximum(ends)
                 /\ summary.total_days = (Maximum(ends) - Minimum(starts)) + 1

(***************************************************************************)
(* C22  A forward or backward schedule changes nothing but start_date and  *)
(* end_date: every task keeps its actual dates, progress, status,          *)
(* progress_history, manual flags, duration, predecessor and excluded      *)
(* flag, the list keeps its order and length, and the ledger is untouched. *)
(***************************************************************************)
C22_OnlyPlannedDatesChange ==
    [][IsSchedule(lastOp') =>
          /\ Len(tasks') = Len(tasks)
          /\ \A i \in 1..Len(tasks) :
                [tasks'[i] EXCEPT !.start_date = tasks[i].start_date,
                                  !.end_date = tasks[i].end_date] = tasks[i]
          /\ records' = records]_vars

\* a completed task with its actual dates and its record has been scheduled,
\* and a pinned end date is still flagged
C22_Witness ==
    /\ IsSchedule(lastOp)
    /\ tasks[1].progress = 100 /\ tasks[1].actual_end = At(1, 0)
    /\ tasks[1].progress_history = <<1>> /\ tasks[1].start_date # NoDate
    /\ \E i \in 1..Len(tasks) : tasks[i].manual_end /\ ~tasks[i].excluded

(***************************************************************************)
(* C23  After any sequence of add_record calls, backdated entries and      *)
(* corrections of an earlier day included, every record of the ledger has  *)
(* increment = its progress minus the progress of the most recent          *)
(* earlier-dated record of the same task (0 when there is none).           *)
(***************************************************************************)
C23_IncrementsConsistent ==
    \A k \in 1..Len(records) :
        records[k].increment =
            records[k].progress
            - PreviousProgress(records, records[k].task_no,
                               DateOf(records[k].record_date))

(***************************************************************************)
(* C24  After any sequence of scheduling requests and exclusion toggles,   *)
(* every excluded task has start_date and end_date both unset.             *)
(***************************************************************************)
C24_ExcludedTasksUnset ==
    lastOp.kind # "init" =>
        \A i \in 1..Len(tasks) :
            tasks[i].excluded =>
                tasks[i].start_date = NoDate /\ tasks[i].end_date = NoDate


(***************************************************************************)
(* C25  For every row the batch import accepts, the new progress is the    *)
(* row's current progress plus its increment, clamped into 0..100, and the *)
(* derived status is NOT_STARTED at 0, COMPLETED at 100 and IN_PROGRESS in *)
(* between; after the import every task's progress is within 0..100, and   *)
(* so it is when the per-item loop writes the accepted rows to the tasks.  *)
(***************************************************************************)
Clamped(x) == IF x < 0 THEN 0 ELSE IF x > 100 THEN 100 ELSE x

C25_ImportClamps ==
    lastOp.kind = "import" =>
        /\ \A k \in 1..Len(lastOp.items) :
             LET item == lastOp.items[k]
             IN  /\ item.new_progress = Clamped(item.current_progress + item.increment)
                 /\ item.status = CASE item.new_progress = 0   -> NOT_STARTED
                                    [] item.new_progress = 100 -> COMPLETED
                                    [] OTHER                   -> IN_PROGRESS
        /\ \A i \in 1..Len(tasks) : tasks[i].progress \in 0..100
        /\ LET written == ImportItems(tasks, records, lastOp.items, 1, lastOp.date, 0)
           IN  \A i \in 1..Len(tasks) : written.tasks[i].progress \in 0..100

\* a sheet whose rows reach both ends of the range: 60 + 50 and 60 - 70
C25_Witness ==
    /\ lastOp.kind = "import"
    /\ \E k \in 1..Len(lastOp.items) :
         /\ lastOp.items[k].current_progress + lastOp.items[k].increment > 100
         /\ lastOp.items[k].new_progress = 100
    /\ \E k \in 1..Len(lastOp.items) :
         /\ lastOp.items[k].current_progress + lastOp.items[k].increment < 0
         /\ lastOp.items[k].status = NOT_STARTED


(***************************************************************************)
(* C26  A deletion that names a record id the ledger does not hold, or a   *)
(* task index outside the list, is answered not-found and changes neither  *)
(* the ledger nor any task; a progress record for a task index outside the *)
(* list is rejected the same way.                                          *)
(***************************************************************************)
C26_NotFoundChangesNothing ==
    [][/\ (/\ lastOp'.kind \in {"delete", "delete_404"}
           /\ \/ lastOp'.record_id \notin RecordIds(records)
              \/ lastOp'.index \notin 1..Len(tasks))
          => (lastOp'.kind = "delete_404" /\ tasks' = tasks /\ records' = records)
       /\ (/\ lastOp'.kind \in {"progress", "progress_404"}
           /\ lastOp'.index \notin 1..Len(tasks))
          => (lastOp'.kind = "progress_404" /\ tasks' = tasks /\ records' = records)
      ]_vars

\* a deletion by an id that is gone from the ledger and still listed in the
\* history of the task the request names: not found, the history is kept
C26_Witness ==
    /\ lastOp.kind = "delete_404"
    /\ lastOp.index \in 1..Len(tasks)
    /\ \E k \in 1..Len(tasks[lastOp.index].progress_history) :
         tasks[lastOp.index].progress_history[k] = lastOp.record_id


(***************************************************************************)
(* C27  Whatever the predecessor references are (to a missing task, to an  *)
(* excluded task, to the task itself, around a cycle) and whatever the     *)
(* calendar switches, a forward or backward pass ends and leaves every     *)
(* non-excluded task with a start date and an end date.                    *)
(***************************************************************************)
C27_IncludedTasksDated ==
    IsSchedule(lastOp) =>
        \A i \in 1..Len(tasks) :
            ~tasks[i].excluded =>
                tasks[i].start_date # NoDate /\ tasks[i].end_date # NoDate

\* a pass over a list with a cycle between its first two tasks, one of them
\* flagged manual without a date
C27_Witness ==
    /\ IsSchedule(lastOp)
    /\ tasks[1].predecessor = "B" /\ tasks[2].predecessor = "A"
    /\ \E i \in 1..2 :
         /\ tasks[i].manual_start \/ tasks[i].manual_end
         /\ ~tasks[i].excluded
         /\ tasks[i].start_date # NoDate /\ tasks[i].end_date # NoDate


(***************************************************************************)
(* C28  After a forward or backward pass, every non-excluded task that had *)
(* neither date pinned when the pass started spans exactly duration        *)
(* workable days: get_workdays_between(start_date, end_date) = duration.   *)
(***************************************************************************)
C28_SpanIsDuration ==
    [][IsSchedule(lastOp') =>
          \A i \in 1..Len(tasks) :
              (/\ ~tasks'[i].excluded
               /\ tasks'[i].duration >= 1
               /\ ~StartPinned(tasks[i]) /\ ~EndPinned(tasks[i]))
              => get_workdays_between(SchedulerOf(lastOp'), tasks'[i].start_date,
                                      tasks'[i].end_date) = tasks'[i].duration]_vars

\* a two-day task scheduled across a weekend with the weekends excluded
C28_Witness ==
    /\ IsSchedule(lastOp) /\ lastOp.exclude_weekends
    /\ \E i \in 1..Len(tasks) :
         /\ ~tasks[i].excluded /\ tasks[i].duration = 2
         /\ ~tasks[i].manual_start /\ ~tasks[i].manual_end
         /\ tasks[i].end_date - tasks[i].start_date > 2


(***************************************************************************)
(* C29  When no task has a pinned date as a pass starts, no non-excluded   *)
(* task starts before the project start after a forward pass, and none     *)
(* ends after the project deadline after a backward pass.                  *)
(***************************************************************************)
C29_WithinProjectBound ==
    [][(/\ IsSchedule(lastOp')
        /\ \A i \in 1..Len(tasks) : ~StartPinned(tasks[i]) /\ ~EndPinned(tasks[i]))
       => \A i \in 1..Len(tasks) :
              ~tasks'[i].excluded =>
                  /\ lastOp'.kind = "forward" => tasks'[i].start_date >= lastOp'.date
                  /\ lastOp'.kind = "backward" => tasks'[i].end_date <= lastOp'.date
      ]_vars

\* a backward pass from a deadline that is no workable day: the last task
\* ends before the deadline, its predecessor earlier still
C29_Witness ==
    /\ lastOp.kind = "backward"
    /\ ~is_workday(SchedulerOf(lastOp), lastOp.date)
    /\ \A i \in 1..Len(tasks) :
         /\ ~tasks[i].manual_start /\ ~tasks[i].manual_end /\ ~tasks[i].excluded
         /\ tasks[i].end_date < lastOp.date
    /\ \E i, j \in 1..Len(tasks) : tasks[i].end_date < tasks[j].start_date


(***************************************************************************)
(* C30  A task starts with actual_start and actual_end unset.  As long as  *)
(* no add_record call for it names a day earlier than a day already        *)
(* recorded for it, actual_end set implies actual_start set, and           *)
(* actual_start <= actual_end.  Stated as the step of the induction over   *)
(* the calls: a call that is not earlier than the task's records keeps the *)
(* two facts.  Record dates that never decrease are such calls.            *)
(***************************************************************************)
ActualOrdered(t) ==
    t.actual_end # NoDate =>
        t.actual_start # NoDate /\ t.actual_start <= t.actual_end

NotEarlier(recs, task_no, instant) ==
    \A k \in 1..Len(recs) :
        recs[k].task_no = task_no => DateOf(recs[k].record_date) <= DateOf(instant)

C30_ActualStartBeforeEnd ==
    [][lastOp'.kind = "record" =>
          /\ lastOp.kind = "init" => \A i \in 1..Len(tasks) : ActualOrdered(tasks[i])
          /\ \A i \in 1..Len(tasks) :
               (/\ ActualOrdered(tasks[i])
                /\ i = lastOp'.index =>
                       NotEarlier(records, tasks[i].task_no, lastOp'.date))
               => ActualOrdered(tasks'[i])]_vars

\* a task in progress since day 1 is completed on a later day
C30_Witness ==
    /\ lastOp.kind = "record" /\ lastOp.status = COMPLETED
    /\ tasks[lastOp.index].actual_start = At(1, 0)
    /\ tasks[lastOp.index].actual_end = lastOp.date
    /\ DateOf(lastOp.date) > 1

====
